---- MODULE Spec2Model ----
(***************************************************************************)
(* Multi-criteria community detection on bipartite graphs                  *)
(* (src/moo/multicriteria.py, src/moo/contestant.py).                      *)
(*                                                                         *)
(* Vertices are 0..n-1 as in the source.  Python lists that the source     *)
(* indexes with a gene (adj_list_[i][x[i]-1]) are TLA+ sequences, so the   *)
(* Python index x[i]-1 is the TLA+ index x[i].  Floating point values are  *)
(* exact rationals [num, den]; den = 0 stands for NaN.                     *)
(***************************************************************************)
EXTENDS Integers, Sequences, FiniteSets, Bags, TLC

\* Bounds of the model.
MaxV == 4
MaxDetV == 3
MaxPop == 1
MaxPizPop == 2
MaxFront == 1
MaxRows == 2
MaxX == 2
MaxSeedPop == 4
MaxCalls == 1
MaxWalkV == 5
RandRes == 8

VARIABLES pc, graph_, params_, problem_, pop_, algorithm_, termination_,
          res_, results_, x, out, X, cur, prev

vars == <<pc, graph_, params_, problem_, pop_, algorithm_, termination_,
          res_, results_, x, out, X, cur, prev>>

None == "None"

----------------------------------------------------------------------------
(* Arithmetic helpers *)

RECURSIVE Sum(_, _)
Sum(f, S) == IF S = {} THEN 0
             ELSE LET e == CHOOSE e \in S : TRUE IN f[e] + Sum(f, S \ {e})

Max(S) == CHOOSE a \in S : \A b \in S : b <= a
Min(S) == CHOOSE a \in S : \A b \in S : a <= b

RECURSIVE SortedSeq(_)
SortedSeq(S) == IF S = {} THEN <<>> ELSE <<Min(S)>> \o SortedSeq(S \ {Min(S)})

Range(s) == {s[k] : k \in DOMAIN s}

\* A float: an exact rational, or NaN (den = 0).
NaN == [num |-> 0, den |-> 0]
Rat(a, b) == IF b = 0 THEN NaN ELSE [num |-> a, den |-> b]
Neg(q) == [num |-> 0 - q.num, den |-> q.den]
IsNaN(q) == q.den = 0

----------------------------------------------------------------------------
(* igraph.Graph: n vertices, vertex attribute VX (the side: 0 Lower,       *)
(* 1 Upper) and an undirected simple edge set E of pairs <<i, j>>, i < j.  *)

Vertices(g) == 0 .. (g.n - 1)

Adjacent(g, i, j) == <<i, j>> \in g.E \/ <<j, i>> \in g.E

Neighbors(g, i) == {j \in Vertices(g) : Adjacent(g, i, j)}

\* Graph.get_adjlist(): for every vertex its neighbours in increasing order.
get_adjlist(g) == [i \in Vertices(g) |-> SortedSeq(Neighbors(g, i))]

\* Graph.indegree(): on an undirected graph, the degree.
indegree(g) == [i \in Vertices(g) |-> Cardinality(Neighbors(g, i))]

\* Vertices reachable from the set S along edges of E (undirected).
RECURSIVE Reach(_, _)
Reach(E, S) ==
    LET T == S \cup {e[2] : e \in {d \in E : d[1] \in S}}
                \cup {e[1] : e \in {d \in E : d[2] \in S}}
    IN IF T = S THEN S ELSE Reach(E, T)

\* Graph.is_connected(); the null graph is not connected.
is_connected(g) == g.n > 0 /\ Reach(g.E, {0}) = Vertices(g)

\* Graph.is_bipartite(): the structure admits a two-colouring.
is_bipartite(g) ==
    \E c \in [Vertices(g) -> {0, 1}] : \A e \in g.E : c[e[1]] # c[e[2]]

\* VertexClustering.membership of Graph.clusters(): vertices are scanned in
\* increasing index, every vertex not yet labelled opens the next component
\* id and labels everything reachable from it.
RECURSIVE ClusterScan(_, _, _, _, _)
ClusterScan(n, E, i, m, next) ==
    IF i = n THEN m
    ELSE IF m[i] # -1 THEN ClusterScan(n, E, i + 1, m, next)
    ELSE LET comp == Reach(E, {i})
         IN ClusterScan(n, E, i + 1,
                        [v \in 0 .. (n - 1) |-> IF v \in comp THEN next ELSE m[v]],
                        next + 1)

clusters(n, E) == ClusterScan(n, E, 0, [v \in 0 .. (n - 1) |-> -1], 0)

\* Graph.modularity(membership, weights): Newman's Q of the weighted graph on
\* the index set V with symmetric weights W; NaN when the graph has no edge.
\*   Q = 1/(2m) * sum_ij (W_ij - s_i s_j / 2m) [c_i = c_j]
modularity(V, W, c) ==
    LET s == [i \in V |-> Sum([j \in V |-> W[i][j]], V)]
        twoM == Sum(s, V)
        term == [i \in V |->
                   Sum([j \in V |-> IF c[i] = c[j]
                                    THEN twoM * W[i][j] - s[i] * s[j] ELSE 0], V)]
    IN Rat(Sum(term, V), twoM * twoM)

\* Unweighted adjacency matrix of g.
AdjW(g) == [i \in Vertices(g) |->
              [j \in Vertices(g) |-> IF Adjacent(g, i, j) THEN 1 ELSE 0]]

\* One graph of Graph.bipartite_projection(multiplicity=True): the vertices
\* of one side, in increasing index (the sequence side), two of them joined
\* with weight = number of common neighbours.
ProjW(g, side) ==
    [a \in DOMAIN side |->
       [b \in DOMAIN side |->
          IF a = b THEN 0
          ELSE Cardinality(Neighbors(g, side[a]) \cap Neighbors(g, side[b]))]]

----------------------------------------------------------------------------
(* Shortest paths and betweenness (Graph.betweenness, edge_betweenness).   *)

\* Distances from s: breadth-first layers; g.n marks "unreachable".
RECURSIVE Layers(_, _, _, _, _)
Layers(g, frontier, seen, k, d) ==
    IF frontier = {} THEN d
    ELSE LET nxt == UNION {Neighbors(g, v) : v \in frontier} \ seen
         IN Layers(g, nxt, seen \cup nxt, k + 1,
                   [v \in Vertices(g) |-> IF v \in nxt THEN k + 1 ELSE d[v]])

DistFrom(g, s) ==
    Layers(g, {s}, {s}, 0, [v \in Vertices(g) |-> IF v = s THEN 0 ELSE g.n])

\* Number of shortest s-t paths, D the distance table.
RECURSIVE Sigma(_, _, _, _)
Sigma(g, D, s, t) ==
    IF t = s THEN 1
    ELSE LET P == {u \in Neighbors(g, t) : D[s][u] = D[s][t] - 1}
         IN Sum([u \in P |-> Sigma(g, D, s, u)], P)

RECURSIVE Gcd(_, _)
Gcd(a, b) == IF b = 0 THEN a ELSE Gcd(b, a % b)

RECURSIVE LcmOf(_)
LcmOf(S) == IF S = {} THEN 1
            ELSE LET e == CHOOSE e \in S : TRUE
                     r == LcmOf(S \ {e})
                 IN (e * r) \div Gcd(e, r)

\* The shortest-path tables of a connected graph: distances D, path counts
\* sig, and scale, a common multiple of the path counts.  A betweenness b is
\* held as the integer b * scale.
PathTables(g) ==
    LET V == Vertices(g)
        D == [s \in V |-> DistFrom(g, s)]
        sig == [s \in V |-> [t \in V |-> Sigma(g, D, s, t)]]
    IN [D |-> D, sig |-> sig,
        scale |-> LcmOf({sig[s][t] : s \in V, t \in V})]

\* Graph.edge_betweenness(directed=False), times T.scale: over the pairs
\* s < t, the fraction of shortest s-t paths that run through the edge.
edge_betweenness(g, T) ==
    LET V == Vertices(g)
        Pairs == {p \in V \X V : p[1] < p[2]}
        through(e, s, t) ==
            (IF T.D[s][e[1]] + 1 + T.D[e[2]][t] = T.D[s][t]
             THEN T.sig[s][e[1]] * T.sig[e[2]][t] ELSE 0)
          + (IF T.D[s][e[2]] + 1 + T.D[e[1]][t] = T.D[s][t]
             THEN T.sig[s][e[2]] * T.sig[e[1]][t] ELSE 0)
    IN [e \in g.E |->
          Sum([p \in Pairs |->
                 (T.scale \div T.sig[p[1]][p[2]]) * through(e, p[1], p[2])],
              Pairs)]

\* Graph.betweenness(directed=False), times T.scale: over the pairs s < t
\* not containing v, the fraction of shortest s-t paths that visit v.
betweenness(g, T) ==
    LET V == Vertices(g)
    IN [v \in V |->
          LET Pairs == {p \in V \X V : p[1] < p[2] /\ p[1] # v /\ p[2] # v}
          IN Sum([p \in Pairs |->
                    IF T.D[p[1]][v] + T.D[v][p[2]] = T.D[p[1]][p[2]]
                    THEN (T.scale \div T.sig[p[1]][p[2]])
                           * T.sig[p[1]][v] * T.sig[v][p[2]]
                    ELSE 0],
                 Pairs)]

----------------------------------------------------------------------------
(* MultiCriteriaProblem *)

Err(e) == [err |-> e]
IsErr(v) == "err" \in DOMAIN v

\* Vertex indices of one side of the graph, in increasing order
\* (proj0_ for side 0, proj1_ for side 1).
SideOf(g, side) == SortedSeq({i \in Vertices(g) : g.VX[i] = side})

\* n_obj_ as the constructor leaves it: the branch of mode "4d" assigns the
\* attribute n_obj, which the base constructor then overwrites, so n_obj_
\* keeps its initial value there.
n_obj_Of(mode) == IF mode = "3d" THEN 3 ELSE 2

\* A variant without the assertion on the mode.
ModeOkAny(mode) == TRUE

\* assert mode == "3d" or mode == "2d" or mode == "4d"
ModeOk(mode) == mode \in {"3d", "2d", "4d"}

\* MultiCriteriaProblem.__init__(mode, graph): the problem instance, or the
\* error it raises.
MultiCriteriaProblem(mode, graph) ==
    IF ~is_bipartite(graph) \/ ~is_connected(graph) \/ graph.n = 0
    THEN Err("AssertionError")
    ELSE IF ~ModeOk(mode) THEN Err("AssertionError")
    ELSE
    LET V == Vertices(graph)
        xu == indegree(graph)
        T == PathTables(graph)
        full_weights == edge_betweenness(graph, T)
        weights == betweenness(graph, T)
        freq1 == [i \in V |-> IF xu[i] = 1 THEN xu[i] - 1 ELSE xu[i]]
        freq1_total == Sum(freq1, V)
        freq2 == weights
        freq2_total == Sum(freq2, V)
        freq3 == [i \in V |-> xu[i] * weights[i]]
        freq3_total == Sum(freq3, V)
    IN IF freq1_total = 0 \/ freq2_total = 0 \/ freq3_total = 0
       THEN Err("ZeroDivisionError")
       ELSE [graph_ |-> graph,
             mode_ |-> mode,
             n_var_ |-> graph.n,
             n_obj_ |-> n_obj_Of(mode),
             n_obj |-> n_obj_Of(mode),
             xl_ |-> [i \in V |-> 0],
             xu_ |-> xu,
             proj0_ |-> SideOf(graph, 0),
             proj1_ |-> SideOf(graph, 1),
             adj_list_ |-> get_adjlist(graph),
             bs |-> full_weights,
             bscale |-> T.scale,
             prob1 |-> [i \in V |-> Rat(freq1[i], freq1_total)],
             prob2 |-> [i \in V |-> Rat(freq2[i], freq2_total)],
             prob3 |-> [i \in V |-> Rat(freq3[i], freq3_total)]]

\* A variant that ignores the value of a gene > 0 and always selects the
\* first neighbour.
sol_edgesFirstNeighbour(problem, genome) ==
    {<<i, problem.adj_list_[i][1]>> :
        i \in {j \in 0 .. (problem.n_var_ - 1) : genome[j] > 0}}

\* A variant that lets a gene of 0 select too: index 0 - 1 = -1 of a Python
\* list is its last element.
sol_edgesZeroSelectsLast(problem, genome) ==
    {<<i, problem.adj_list_[i][IF genome[i] = 0
                               THEN Len(problem.adj_list_[i])
                               ELSE genome[i]]>> :
        i \in {j \in 0 .. (problem.n_var_ - 1) : genome[j] >= 0}}

\* sol_edges of _evaluate and collate_results: a gene > 0 selects the edge to
\* the x[i]-th neighbour; a gene that is not > 0 selects nothing.
sol_edges(problem, genome) ==
    {<<i, problem.adj_list_[i][genome[i]]>> :
        i \in {j \in 0 .. (problem.n_var_ - 1) : genome[j] > 0}}

\* The list index adj_list_[i][x[i]-1] is out of range.
IndexError(problem, genome) ==
    \E i \in 0 .. (problem.n_var_ - 1) :
        genome[i] > 0 /\ genome[i] > Len(problem.adj_list_[i])

\* Decoding: membership of the connected components of the selected edges.
decode(problem, genome) == clusters(problem.n_var_, sol_edges(problem, genome))

\* A variant that forgets the + 1 of max(c.membership) + 1.
NumClustersNoIncrement(m) == Max({m[i] : i \in DOMAIN m})

NumClusters(m) == Max({m[i] : i \in DOMAIN m}) + 1

Labels(m, side) == [a \in DOMAIN side |-> m[side[a]]]

\* A variant that hands the Upper labels to projection 1 and the Lower
\* labels to projection 2, and does not negate the whole-graph modularity.
evaluateSwapped(problem, genome) ==
    IF IndexError(problem, genome) THEN Err("IndexError")
    ELSE
    LET g == problem.graph_
        m == decode(problem, genome)
        q1 == modularity(DOMAIN problem.proj1_, ProjW(g, problem.proj1_),
                         Labels(m, problem.proj1_))
        q2 == modularity(DOMAIN problem.proj0_, ProjW(g, problem.proj0_),
                         Labels(m, problem.proj0_))
        q == modularity(Vertices(g), AdjW(g), m)
    IN IF problem.mode_ = "3d"
       THEN [F |-> <<Neg(q1), Neg(q2), NumClusters(m)>>]
       ELSE IF problem.mode_ = "4d"
       THEN [F |-> <<Neg(q1), Neg(q2), Neg(q), NumClusters(m)>>]
       ELSE [F |-> <<q, NumClusters(m)>>]

\* MultiCriteriaProblem._evaluate(x, out): the value written to out["F"], or
\* the error raised.
evaluate(problem, genome) ==
    IF IndexError(problem, genome) THEN Err("IndexError")
    ELSE
    LET g == problem.graph_
        m == decode(problem, genome)
        num_clusters == NumClusters(m)
        modularity_score_1 ==
            modularity(DOMAIN problem.proj0_, ProjW(g, problem.proj0_),
                       Labels(m, problem.proj0_))
        modularity_score_2 ==
            modularity(DOMAIN problem.proj1_, ProjW(g, problem.proj1_),
                       Labels(m, problem.proj1_))
        modularity_score == modularity(Vertices(g), AdjW(g), m)
    IN IF problem.mode_ = "3d"
       THEN [F |-> <<Neg(modularity_score_1), Neg(modularity_score_2),
                     num_clusters>>]
       ELSE IF problem.mode_ = "4d"
       THEN [F |-> <<Neg(modularity_score_1), Neg(modularity_score_2),
                     Neg(modularity_score), num_clusters>>]
       ELSE [F |-> <<Neg(modularity_score), num_clusters>>]

----------------------------------------------------------------------------
(* Inputs *)

\* Graphs as the repository builds them: the Lower vertices (VX = 0) come
\* first, then the Upper ones (contestant.py slices membership[0:lower]).
TypesOf(nl, nu) == [i \in 0 .. (nl + nu - 1) |-> IF i < nl THEN 0 ELSE 1]

AllPairs(n) == {p \in (0 .. (n - 1)) \X (0 .. (n - 1)) : p[1] < p[2]}

\* Every graph on at most maxn vertices whose sides are an honest
\* two-colouring, and every graph that has no two-colouring at all.
GraphsUpTo(maxn) ==
    UNION {
      {g \in {[n |-> s[1] + s[2], VX |-> TypesOf(s[1], s[2]), E |-> E] :
                  E \in SUBSET AllPairs(s[1] + s[2])} :
          (\A e \in g.E : g.VX[e[1]] # g.VX[e[2]]) \/ ~is_bipartite(g)} :
      s \in {t \in (0 .. maxn) \X (0 .. maxn) : t[1] + t[2] <= maxn}}

Graphs == GraphsUpTo(MaxV)

Modes == {"2d", "3d", "4d"}

\* The problem instances that can be constructed.
Problems ==
    {p \in {MultiCriteriaProblem(mode, g) : mode \in Modes, g \in Graphs} :
        ~IsErr(p)}

\* Genomes the engine contract allows: gene i in [0, deg(i)].
WellFormed(problem, genome) ==
    \A i \in 0 .. (problem.n_var_ - 1) :
        genome[i] >= 0 /\ genome[i] <= problem.xu_[i]

Genomes(problem) ==
    {genome \in [0 .. (problem.n_var_ - 1) -> 0 .. Max(Range(problem.xu_))] :
        WellFormed(problem, genome)}

\* Sequences of 1 .. k distinct elements of S.
DistinctSeqs(S, k) ==
    UNION {{q \in [1 .. len -> S] : \A a, b \in 1 .. len : a # b => q[a] # q[b]} :
           len \in 1 .. k}

\* Genomes with one gene just outside its range.
Malformed(problem) ==
    {[genome EXCEPT ![q[1]] = IF q[2] = 0 THEN -1 ELSE problem.xu_[q[1]] + 1] :
        genome \in Genomes(problem),
        q \in (0 .. (problem.n_var_ - 1)) \X {0, 1}}

----------------------------------------------------------------------------
(* Population seeding: ComDetMultiCriteria.initialize_pop *)

\* Graph.spanning_tree(weights): the edge sets of the minimum spanning
\* trees of a connected graph; which of them the library returns depends on
\* how it breaks ties between edges of equal weight.
spanning_tree(g, w) ==
    LET trees == {T \in SUBSET g.E :
                     /\ Cardinality(T) = g.n - 1
                     /\ Reach(T, {0}) = Vertices(g)}
        weight(T) == Sum([e \in T |-> w[e]], T)
    IN {T \in trees : \A T2 \in trees : weight(T) <= weight(T2)}

\* Graph.community_fastgreedy(): the dendrograms of greedy modularity
\* merging, each a sequence of partitions from |V| singletons down to one
\* block.  A step joins two blocks that share an edge and gain the most
\* modularity, dQ = 2 (e_AB - a_A a_B), which orders like
\* 2m L_AB - d_A d_B; ties are the library's to break.
RECURSIVE Merges(_, _)
Merges(g, P) ==
    LET twoM == 2 * Cardinality(g.E)
        L(A, B) == Cardinality({e \in g.E : (e[1] \in A /\ e[2] \in B)
                                        \/ (e[1] \in B /\ e[2] \in A)})
        d(A) == Sum([v \in A |-> Cardinality(Neighbors(g, v))], A)
        dq(A, B) == twoM * L(A, B) - d(A) * d(B)
        cand == {pr \in P \X P : pr[1] # pr[2] /\ L(pr[1], pr[2]) > 0}
        best == {pr \in cand : \A o \in cand : dq(o[1], o[2]) <= dq(pr[1], pr[2])}
    IN IF best = {} THEN {<<P>>}
       ELSE UNION {{<<P>> \o rest :
                      rest \in Merges(g, (P \ {pr[1], pr[2]})
                                           \cup {pr[1] \cup pr[2]})} :
                   pr \in best}

community_fastgreedy(g) == Merges(g, {{v} : v \in Vertices(g)})

\* VertexDendrogram.as_clustering(k).membership: the partition with k
\* blocks; a block is labelled here by its smallest vertex.
as_clustering(g, hc, k) ==
    LET P == hc[g.n - k + 1]
    IN [v \in Vertices(g) |-> Min(CHOOSE B \in P : v \in B)]

\* recursive_links(node_index, node_origin, x, ..., a, mst): the genome x
\* after the call.  A vertex seen before is left alone; otherwise its gene
\* becomes the position of node_origin in its adjacency list a[node_index]
\* and the call recurses over its neighbours in the tree.
RECURSIVE recursive_links(_, _, _, _, _)
RECURSIVE LinkChildren(_, _, _, _, _)

\* A variant that links the vertex to its origin and does not recurse.
recursive_linksNoRecursion(node_index, node_origin, genome, a, mst) ==
    IF genome[node_index] # -1 THEN genome
    ELSE LET js == {j \in DOMAIN a[node_index] : a[node_index][j] = node_origin}
         IN IF js = {} THEN genome ELSE [genome EXCEPT ![node_index] = Max(js)]

\* A variant that links the vertex to the first vertex of its adjacency
\* list, whatever its origin.
recursive_linksFirstPosition(node_index, node_origin, genome, a, mst) ==
    IF genome[node_index] # -1 THEN genome
    ELSE LinkChildren(node_index, 1, [genome EXCEPT ![node_index] = 1], a, mst)

recursive_links(node_index, node_origin, genome, a, mst) ==
    IF genome[node_index] # -1 THEN genome
    ELSE LET js == {j \in DOMAIN a[node_index] : a[node_index][j] = node_origin}
             linked == IF js = {} THEN genome
                       ELSE [genome EXCEPT ![node_index] = Max(js)]
         IN LinkChildren(node_index, 1, linked, a, mst)

\* The loop "for i in range(len(mst[node]))" from its k-th round on.
LinkChildren(node, k, genome, a, mst) ==
    IF k > Len(mst[node]) THEN genome
    ELSE LinkChildren(node, k + 1,
                      recursive_links(mst[node][k], node, genome, a, mst),
                      a, mst)

\* The loop of initialize_pop over the vertices i, from vertex i on: every
\* vertex not reached so far becomes a root with gene 0.
RECURSIVE SeedFrom(_, _, _, _, _)
SeedFrom(i, n, genome, a, mst) ==
    IF i = n THEN genome
    ELSE IF genome[i] # -1 THEN SeedFrom(i + 1, n, genome, a, mst)
    ELSE SeedFrom(i + 1, n,
                  LinkChildren(i, 1, [genome EXCEPT ![i] = 0], a, mst), a, mst)

\* The genome that initialize_pop derives from the spanning tree t.
MstSeed(problem, t) ==
    LET mst == get_adjlist([n |-> problem.n_var_, E |-> t])
    IN SeedFrom(0, problem.n_var_, [i \in 0 .. (problem.n_var_ - 1) |-> -1],
                problem.adj_list_, mst)

\* A variant with the community test inverted: it zeroes the genes whose
\* edge stays inside the community.
DiverseRowInverted(problem, seed, test) ==
    [j \in 0 .. (problem.n_var_ - 1) |->
        IF /\ seed[j] # 0
           /\ test[problem.adj_list_[j][seed[j]]] = test[j]
           /\ problem.xu_[j] > 1
        THEN 0 ELSE seed[j]]

\* Row ctr = k - 1 of the diverse population: the seed with gene j zeroed
\* when the edge it selects leaves j's community of the cut with k
\* communities and j has more than one neighbour.
DiverseRow(problem, seed, test) ==
    [j \in 0 .. (problem.n_var_ - 1) |->
        IF /\ seed[j] # 0
           /\ test[problem.adj_list_[j][seed[j]]] # test[j]
           /\ problem.xu_[j] > 1
        THEN 0 ELSE seed[j]]

MinOf(a, b) == IF a < b THEN a ELSE b

\* A variant that goes on cutting the rows past min(popsize, n_var), by
\* the finest cut.
MstDiversePopEveryRow(problem, popsize, t, test_hc) ==
    LET seed == MstSeed(problem, t)
    IN [r \in 1 .. popsize |->
          IF r >= 2
          THEN DiverseRow(problem, seed,
                          as_clustering(problem.graph_, test_hc,
                                        MinOf(r, problem.n_var_)))
          ELSE seed]

\* The population of the default ("MST-diverse") initialization for the
\* spanning tree t and the dendrogram test_hc: popsize copies of the seed,
\* rows 1 .. min(popsize, n_var) - 1 then cut by the dendrogram.
\* Row ctr of the source is pop[ctr + 1] here.
MstDiversePop(problem, popsize, t, test_hc) ==
    LET seed == MstSeed(problem, t)
    IN [r \in 1 .. popsize |->
          IF r >= 2 /\ r <= MinOf(popsize, problem.n_var_)
          THEN DiverseRow(problem, seed,
                          as_clustering(problem.graph_, test_hc, r))
          ELSE seed]

\* A variant that takes randint's upper limit as inclusive.
randintInclusive(low, high) == low .. high

\* np.random.randint(low, high): low <= v < high.
randint(low, high) == low .. (high - 1)

\* A variant that draws every gene from 0 on.
PizzutiPopsFromZero(problem, popsize) ==
    [1 .. popsize ->
        {genome \in [0 .. (problem.n_var_ - 1) -> 0 .. Max(Range(problem.xu_))] :
            \A i \in 0 .. (problem.n_var_ - 1) :
                genome[i] \in randint(0, Len(problem.adj_list_[i]) + 1)}]

\* The populations of the 'pizzuti' initialization: every gene of every
\* row is np.random.randint(1, len(adj_list[i]) + 1).
PizzutiPops(problem, popsize) ==
    [1 .. popsize ->
        {genome \in [0 .. (problem.n_var_ - 1) -> 1 .. Max(Range(problem.xu_))] :
            \A i \in 0 .. (problem.n_var_ - 1) :
                genome[i] \in randint(1, Len(problem.adj_list_[i]) + 1)}]

\* The run in progress works on the graph of the last completed run.
SameGraph == Len(prev) = 1 /\ prev[1].graph = graph_

\* initialize_pop: sets pop_; cur keeps its locals x (the seed), t and
\* test_hc.
\* The 'pizzuti' branch draws from np.random in whatever state the call
\* found it; the default branch draws nothing, its tree and dendrogram are
\* the library's choice for the graph.
initialize_pop ==
    /\ pc = "initialize_pop"
    /\ \/ /\ params_.initialization = "pizzuti"
          /\ pop_' \in PizzutiPops(problem_, params_.popsize)
          /\ cur' = None
       \/ /\ params_.initialization # "pizzuti"
          /\ \E t \in spanning_tree(problem_.graph_, problem_.bs),
                test_hc \in community_fastgreedy(problem_.graph_) :
                /\ pop_' = MstDiversePop(problem_, params_.popsize, t, test_hc)
                /\ cur' = [x |-> MstSeed(problem_, t), t |-> t,
                           test_hc |-> test_hc]
                /\ SameGraph => cur' = prev[1].cur
    /\ pc' = "define_algo"
    /\ UNCHANGED <<graph_, params_, problem_, res_, results_, x, out, X,
                   algorithm_, termination_, prev>>

\* Seeding alone: any constructed problem, any population size.
InitSeed ==
    /\ pc = "initialize_pop"
    /\ problem_ \in Problems
    /\ graph_ = problem_.graph_
    /\ params_ \in
         {[mode |-> problem_.mode_, popsize |-> p, initialization |-> "",
           mutation |-> ""] : p \in 1 .. MaxSeedPop}
         \cup
         {[mode |-> problem_.mode_, popsize |-> p, initialization |-> "pizzuti",
           mutation |-> ""] : p \in 1 .. MaxPizPop}
    /\ results_ = EmptyBag
    /\ pop_ = None /\ res_ = None /\ x = None /\ out = None /\ X = None
    /\ cur = None
    /\ algorithm_ = None /\ termination_ = None
    /\ prev = <<>>

NextSeed == initialize_pop

SpecSeed == InitSeed /\ [][NextSeed]_vars

----------------------------------------------------------------------------
(* Result collation: ComDetMultiCriteria.collate_results *)

\* make_badj(graph): the biadjacency matrix, rows the Lower vertices and
\* columns the Upper vertices, each side numbered in increasing index.
make_badj(g) ==
    LET lower == SideOf(g, 0)
        upper == SideOf(g, 1)
    IN [rows |-> Len(lower), cols |-> Len(upper),
        edges |-> {rc \in (0 .. (Len(lower) - 1)) \X (0 .. (Len(upper) - 1)) :
                      Adjacent(g, lower[rc[1] + 1], upper[rc[2] + 1])}]

\* A variant that reads the label of an Upper vertex without the offset of
\* the Lower side.
bi_performanceNoOffset(badj, communities) ==
    LET poss_edges == badj.rows * badj.cols
        perf == {rc \in (0 .. (badj.rows - 1)) \X (0 .. (badj.cols - 1)) :
                    \/ /\ rc \in badj.edges
                       /\ communities[rc[1]] = communities[rc[2]]
                    \/ /\ rc \notin badj.edges
                       /\ communities[rc[1]] # communities[rc[2]]}
    IN Rat(Cardinality(perf), poss_edges)

\* bi_performance(badj, communities); communities is 0-based, the Lower
\* labels followed by the Upper labels.
bi_performance(badj, communities) ==
    LET poss_edges == badj.rows * badj.cols
        perf == {rc \in (0 .. (badj.rows - 1)) \X (0 .. (badj.cols - 1)) :
                    \/ /\ rc \in badj.edges
                       /\ communities[rc[1]] = communities[badj.rows + rc[2]]
                    \/ /\ rc \notin badj.edges
                       /\ communities[rc[1]] # communities[badj.rows + rc[2]]}
    IN Rat(Cardinality(perf), poss_edges)

\* A variant whose argmax takes the last index of the largest entry.
modularity_murataLastArgmax(badj, communities) ==
    LET K == 0 .. Max({communities[i] : i \in DOMAIN communities})
        cnt == [l \in K |-> [m \in K |->
                  Cardinality({rc \in badj.edges :
                                  /\ communities[rc[1]] = l
                                  /\ communities[rc[2] + badj.rows] = m})]]
        tot == Sum([l \in K |-> Sum(cnt[l], K)], K)
        rowsum == [l \in K |-> Sum(cnt[l], K)]
        argmax(l) == Max({m \in K : \A o \in K : cnt[l][o] <= cnt[l][m]})
    IN Rat(Sum([l \in K |-> 2 * tot * cnt[l][argmax(l)]
                              - rowsum[l] * rowsum[argmax(l)]], K),
           4 * tot * tot)

\* modularity_murata(badj, communities):
\*   e = counts / (2 sum), a = row sums, q = sum_i (e[i][j] - a[i] a[j]) with
\*   j = argmax(e[i]), the first index of the largest entry.
modularity_murata(badj, communities) ==
    LET K == 0 .. Max({communities[i] : i \in DOMAIN communities})
        cnt == [l \in K |-> [m \in K |->
                  Cardinality({rc \in badj.edges :
                                  /\ communities[rc[1]] = l
                                  /\ communities[rc[2] + badj.rows] = m})]]
        tot == Sum([l \in K |-> Sum(cnt[l], K)], K)
        rowsum == [l \in K |-> Sum(cnt[l], K)]
        argmax(l) == Min({m \in K : \A o \in K : cnt[l][o] <= cnt[l][m]})
    IN Rat(Sum([l \in K |-> 2 * tot * cnt[l][argmax(l)]
                              - rowsum[l] * rowsum[argmax(l)]], K),
           4 * tot * tot)

\* The blocks of a membership vector.
Communities(m) == {{i \in DOMAIN m : m[i] = k} : k \in {m[i] : i \in DOMAIN m}}

\* The tuple collate_results builds for one genome.  The scores that other
\* libraries compute from the graph, the ground truth and the partition
\* (adjusted Rand index, Barber bimodularity, conductance, coverage, Gini
\* index) are held as the partition they are a function of.
ResultTuple(problem, name, genome) ==
    LET g == problem.graph_
        m == decode(problem, genome)
        proj0_labels == Labels(m, problem.proj0_)
        proj1_labels == Labels(m, problem.proj1_)
        both == [i \in 0 .. (problem.n_var_ - 1) |->
                    (proj0_labels \o proj1_labels)[i + 1]]
        badj == make_badj(g)
    IN <<name,
         NumClusters(m),
         modularity(Vertices(g), AdjW(g), m),
         modularity(DOMAIN problem.proj0_, ProjW(g, problem.proj0_), proj0_labels),
         modularity(DOMAIN problem.proj1_, ProjW(g, problem.proj1_), proj1_labels),
         <<"adjusted_rand_score", Communities(m)>>,
         <<"bimodularity", Communities(m)>>,
         <<"conductance", Communities(m)>>,
         <<"edges_inside", Communities(m)>>,
         bi_performance(badj, both),
         <<"gini_index", Communities(m)>>,
         modularity_murata(badj, both)>>

\* Positions of the tuple that hold a float of this model.
FloatFields == {3, 4, 5, 10, 12}

HasNaN(result) == \E k \in FloatFields : IsNaN(result[k])

\* set(temp_results) as a bag: tuples that compare equal collapse to one.
\* A NaN is equal to nothing, itself included, and every tuple holds its
\* own float objects, so a tuple with a NaN in it equals no other tuple and
\* all its copies stay.
RECURSIVE SetOfTuples(_, _)
SetOfTuples(temp_results, k) ==
    IF k > Len(temp_results) THEN EmptyBag
    ELSE LET rest == SetOfTuples(temp_results, k + 1)
             r == temp_results[k]
         IN IF HasNaN(r) THEN rest (+) SetToBag({r})
            ELSE IF BagIn(r, rest) THEN rest
            ELSE rest (+) SetToBag({r})

\* results_ after collate_results: one record per element of the set.
collate(problem, name, XX) ==
    SetOfTuples([n \in 1 .. Len(XX) |-> ResultTuple(problem, name, XX[n])], 1)

collate_results ==
    /\ pc = "collate_results"
    /\ results_' = collate(problem_, "multicriteria", res_.X)
    /\ pc' = "done"
    /\ UNCHANGED <<graph_, params_, problem_, pop_, res_, x, out, X, cur,
                   algorithm_, termination_, prev>>

\* Collation alone: any constructed problem and any final population of
\* distinct well-formed genomes.  collate_results does not read the mode.
InitCollate ==
    /\ pc = "collate_results"
    /\ problem_ \in {p \in Problems : p.mode_ = "2d"}
    /\ graph_ = problem_.graph_
    /\ params_ = [mode |-> problem_.mode_, popsize |-> MaxX,
                  initialization |-> "", mutation |-> ""]
    /\ res_ \in {[X |-> q] : q \in DistinctSeqs(Genomes(problem_), MaxX)}
    /\ results_ = EmptyBag
    /\ pop_ = None /\ x = None /\ out = None /\ X = None /\ cur = None
    /\ algorithm_ = None /\ termination_ = None
    /\ prev = <<>>

NextCollate == collate_results

SpecCollate == InitCollate /\ [][NextCollate]_vars

----------------------------------------------------------------------------
(* Mutation operators: PizMutation._do and HOCMutation._do.                *)
(* A draw of np.random.random() or np.random.uniform() is r / RandRes for  *)
(* an r in 0 .. RandRes - 1.  One step is one round of the inner loop      *)
(* "for l in range(len(X[i]))"; no other action runs between the rounds.   *)

Draws == 0 .. (RandRes - 1)

\* r < q for the draw r / RandRes and the rational q.
DrawBelow(r, q) == r * q.den < q.num * RandRes

\* PizMutation: prob = 1.0 / len(X).
PizProb(XX) == Rat(1, Len(XX))

\* The rounds PizMutation can make at X[i, l], XX the matrix before: the
\* draw r, whether r < prob, the randint value v (0: not drawn) and the
\* value the round leaves in X[i, l].
PizRounds(problem, XX, i, l) ==
    {[r |-> d[1], replaced |-> TRUE, v |-> d[2], value |-> d[2]] :
        d \in {r \in Draws : DrawBelow(r, PizProb(XX))}
                \X randint(problem.xl_[l] + 1, problem.xu_[l] + 1)}
      \cup
    {[r |-> r, replaced |-> FALSE, v |-> 0, value |-> XX[i][l]] :
        r \in {r \in Draws : ~DrawBelow(r, PizProb(XX))}}

\* The values PizMutation can leave in X[i, l]: the old value when
\* r >= prob, a randint value when r < prob.
PizGene(problem, XX, i, l) ==
    {round.value : round \in PizRounds(problem, XX, i, l)}

\* Graph.es.select(_source_in=[l]) on the undirected graph: the edges
\* incident on l.
IncidentEdges(g, l) == {e \in g.E : e[1] = l \/ e[2] = l}

\* edge_p[h]: the betweenness of the edge between l and adj_list_[l][h],
\* stored into an integer array, which drops its fraction.
edge_p(problem, l, h) ==
    LET e == CHOOSE e \in IncidentEdges(problem.graph_, l) :
                 e[1] = problem.adj_list_[l][h] \/ e[2] = problem.adj_list_[l][h]
    IN problem.bs[e] \div problem.bscale

\* p = float(edge_p[h]) / float(total) at every position h (1-based),
\* total the sum of the betweenness of l's edges.
PosProb(problem, l) ==
    LET inc == IncidentEdges(problem.graph_, l)
        total == Sum([e \in inc |-> problem.bs[e]], inc)
    IN [h \in DOMAIN problem.adj_list_[l] |->
          Rat(edge_p(problem, l, h) * problem.bscale, total)]

\* cp after every position h (1-based): the sum of p up to h.
CumProb(problem, l) ==
    LET p == PosProb(problem, l)
    IN [h \in DOMAIN p |->
          Rat(Sum([k \in 1 .. h |-> p[k].num], 1 .. h), p[h].den)]

\* A variant that writes the 0-based position h instead of h + 1.
HOCValueZeroBased(cp, rnd, v) ==
    LET hit == {h \in DOMAIN cp : DrawBelow(rnd, cp[h])}
    IN IF hit = {} THEN v ELSE Min(hit) - 1

\* The value HOCMutation writes for the uniform draw rnd and the randint
\* value v, cp the cumulative probabilities: h + 1 (here h, 1-based) for the
\* first position whose cumulative probability exceeds the draw, else v.
HOCValue(cp, rnd, v) ==
    LET hit == {h \in DOMAIN cp : DrawBelow(rnd, cp[h])}
    IN IF hit = {} THEN v ELSE Min(hit)

\* The rounds HOCMutation can make at X[i, l]: whether r < prob2[l], the
\* uniform draw rnd and the randint value v (0: not drawn), the value p
\* took at the positions the walk visited before it stopped, and the value
\* the round leaves in X[i, l].
HOCRounds(problem, XX, i, l) ==
    (IF \E r \in Draws : ~DrawBelow(r, problem.prob2[l])
     THEN {[replaced |-> FALSE, rnd |-> 0, v |-> 0, p |-> <<>>,
            value |-> XX[i][l]]}
     ELSE {})
      \cup
    (IF \E r \in Draws : DrawBelow(r, problem.prob2[l])
     THEN LET p == PosProb(problem, l)
              cp == CumProb(problem, l)
              visited(rnd) ==
                  LET hit == {h \in DOMAIN cp : DrawBelow(rnd, cp[h])}
                  IN IF hit = {} THEN Len(p) ELSE Min(hit)
          IN {[replaced |-> TRUE, rnd |-> d[1], v |-> d[2],
               p |-> SubSeq(p, 1, visited(d[1])),
               value |-> HOCValue(cp, d[1], d[2])] :
                d \in Draws \X randint(problem.xl_[l] + 1, problem.xu_[l] + 1)}
     ELSE {})

\* The values HOCMutation can leave in X[i, l]: the old value when
\* r >= prob2[l], the walk's value when r < prob2[l].
HOCGene(problem, XX, i, l) ==
    {round.value : round \in HOCRounds(problem, XX, i, l)}

\* Position after (i, l) in the two nested loops; row len + 1 ends them.
NextPos(XX, n, i, l) ==
    IF l + 1 < n THEN [i |-> i, l |-> l + 1] ELSE [i |-> i + 1, l |-> 0]

\* One round of a _do loop at position cur that leaves value in X[i, l];
\* the call starts at (1, 0) with pc = "mutation" and returns X after the
\* last round.
Round(value) ==
    /\ \/ pc = "mutation" /\ cur.calls < MaxCalls
       \/ pc = "mutating"
    /\ X' = [X EXCEPT ![cur.i][cur.l] = value]
    /\ LET nxt == NextPos(X, problem_.n_var_, cur.i, cur.l)
       IN IF nxt.i > Len(X)
          THEN /\ pc' = "mutation"
               /\ cur' = [i |-> 1, l |-> 0, calls |-> cur.calls + 1]
          ELSE /\ pc' = "mutating"
               /\ cur' = [i |-> nxt.i, l |-> nxt.l, calls |-> cur.calls]
    /\ UNCHANGED <<graph_, params_, problem_, pop_, res_, results_, x,
                   algorithm_, termination_, prev>>

\* A round seen from outside the call: only X changes.
MutationStep(values) ==
    /\ \E v \in values : Round(v)
    /\ UNCHANGED out

PizMutation_do ==
    /\ params_.mutation = "pizzuti"
    /\ MutationStep(PizGene(problem_, X, cur.i, cur.l))

HOCMutation_do ==
    /\ params_.mutation = ""
    /\ MutationStep(HOCGene(problem_, X, cur.i, cur.l))

\* Mutation alone: the engine hands _do a matrix of popsize offspring, any
\* well-formed genomes.  The operators do not read the mode.
InitMut ==
    /\ pc = "mutation"
    /\ problem_ \in {p \in Problems : p.mode_ = "2d"}
    /\ graph_ = problem_.graph_
    /\ params_ \in {[mode |-> problem_.mode_, popsize |-> p,
                     initialization |-> "", mutation |-> mu] :
                       p \in 1 .. MaxRows, mu \in {"pizzuti", ""}}
    /\ X \in [1 .. params_.popsize -> Genomes(problem_)]
    /\ cur = [i |-> 1, l |-> 0, calls |-> 0]
    /\ results_ = EmptyBag
    /\ pop_ = None /\ res_ = None /\ x = None /\ out = None
    /\ algorithm_ = None /\ termination_ = None
    /\ prev = <<>>

NextMut == PizMutation_do \/ HOCMutation_do

SpecMut == InitMut /\ [][NextMut]_vars

\* The same rounds with the locals of the round kept in out, together with
\* the position (i, l) and the operator.
PizMutation_round ==
    /\ params_.mutation = "pizzuti"
    /\ \E round \in PizRounds(problem_, X, cur.i, cur.l) :
          /\ Round(round.value)
          /\ out' = [op |-> "PizMutation", i |-> cur.i, l |-> cur.l,
                     round |-> round]

HOCMutation_round ==
    /\ params_.mutation = ""
    /\ \E round \in HOCRounds(problem_, X, cur.i, cur.l) :
          /\ Round(round.value)
          /\ out' = [op |-> "HOCMutation", i |-> cur.i, l |-> cur.l,
                     round |-> round]

\* One call of _do on a matrix of one offspring whose genes all select the
\* first neighbour, on graphs of up to MaxWalkV vertices.
InitRound ==
    /\ pc = "mutation"
    /\ problem_ \in {p \in {MultiCriteriaProblem("2d", g) :
                                g \in GraphsUpTo(MaxWalkV)} : ~IsErr(p)}
    /\ graph_ = problem_.graph_
    /\ params_ \in {[mode |-> problem_.mode_, popsize |-> 1,
                     initialization |-> "pizzuti", mutation |-> mu] :
                       mu \in {"pizzuti", ""}}
    /\ X = <<[l \in 0 .. (problem_.n_var_ - 1) |-> 1]>>
    /\ cur = [i |-> 1, l |-> 0, calls |-> 0]
    /\ results_ = EmptyBag
    /\ pop_ = None /\ res_ = None /\ x = None /\ out = None
    /\ algorithm_ = None /\ termination_ = None
    /\ prev = <<>>

NextRound == PizMutation_round \/ HOCMutation_round

SpecRound == InitRound /\ [][NextRound]_vars

----------------------------------------------------------------------------
(* The detector: ComDetMultiCriteria over CommunityDetector.               *)
(* pc is the position of the caller: "new" before the constructor,         *)
(* "failed" when the constructor raised, "ready" between calls, the name   *)
(* of the next step inside __detect_communitites, "raised" when a call     *)
(* ended with an exception, "done" when it returned.                       *)

\* Values of params['seed'], integers written in decimal.
Seeds == {"1"}

\* Parameter dictionaries a caller may pass; None stands for a missing key,
\* "True" and "False" for the Python booleans.
ParamChoices ==
    [mode : {"2d", "3d", "4d", "5d", None},
     popsize : 1 .. MaxPop,
     initialization : {"pizzuti", "", "random", None},
     mutation : {"pizzuti", "int_pm", "", "swap", None},
     save_history : {"True", "False", None},
     seed : Seeds \cup {None}]

\* "Replace any missing parameters with their default value."
WithDefaults(params) ==
    [params EXCEPT
        !.mode = IF @ = None THEN "3d" ELSE @,
        !.initialization = IF @ = None THEN "" ELSE @,
        !.mutation = IF @ = None THEN "" ELSE @,
        !.save_history = IF @ = None THEN "True" ELSE @]

\* ComDetMultiCriteria.__init__(params)
Construct ==
    /\ pc = "new"
    /\ \E params \in ParamChoices :
          LET p == WithDefaults(params)
          IN IF /\ p.initialization \in {"pizzuti", ""}
                /\ p.mutation \in {"pizzuti", "int_pm", ""}
             THEN /\ params_' = p
                  /\ results_' = EmptyBag
                  /\ pc' = "ready"
             ELSE /\ pc' = "failed"
                  /\ UNCHANGED <<params_, results_>>
    /\ UNCHANGED <<graph_, problem_, pop_, algorithm_, termination_, res_,
                   x, out, X, cur, prev>>

\* CommunityDetector.check_graph(graph): all four assertions pass.
check_graph(graph) ==
    /\ is_bipartite(graph)
    /\ is_connected(graph)
    /\ graph.n # 0

\* minimize seeds np.random with params_['seed'] when it is not None, and
\* else goes on from the state it finds.
Reseeded(seed) == seed # None

\* Positions at which the caller may call a method of the detector.
BetweenCalls == {"ready", "raised", "done", "hv_raised", "hv_returned"}

\* A variant that stores the graph and keeps the results of the previous
\* call.
detect_communitiesNoReset ==
    /\ pc \in BetweenCalls
    /\ \E graph \in GraphsUpTo(MaxDetV) :
          IF check_graph(graph)
          THEN /\ graph_' = graph
               /\ problem_' = None /\ pop_' = None /\ algorithm_' = None
               /\ termination_' = None /\ res_' = None /\ cur' = None
               /\ prev' = IF results_ = EmptyBag THEN prev
                          ELSE <<[graph |-> graph_, cur |-> cur]>>
               /\ pc' = "init_problem"
               /\ UNCHANGED results_
          ELSE /\ pc' = "raised"
               /\ UNCHANGED <<graph_, results_, problem_, pop_, algorithm_,
                              termination_, res_, cur, prev>>
    /\ out' = None
    /\ UNCHANGED <<params_, x, X>>

\* detect_communities(graph) up to the call of __detect_communitites: a
\* failed check raises and changes nothing; otherwise the graph is stored
\* and the results are reset.  What the previous call left in problem_,
\* pop_, algorithm_, termination_ and res_ is overwritten by the steps below
\* before anything reads it, and is dropped here.
\*
\* prev remembers of the last completed run what a later run gets again
\* from the same inputs: the libraries' tree and dendrogram of the graph
\* (initialize_pop) and, when minimize seeded the generator, its result for
\* the population (optimize).
detect_communities ==
    /\ pc \in BetweenCalls
    /\ \E graph \in GraphsUpTo(MaxDetV) :
          IF check_graph(graph)
          THEN /\ graph_' = graph
               /\ results_' = EmptyBag
               /\ problem_' = None /\ pop_' = None /\ algorithm_' = None
               /\ termination_' = None /\ res_' = None /\ cur' = None
               /\ prev' = IF results_ = EmptyBag THEN prev
                          ELSE IF Reseeded(params_.seed)
                          THEN <<[graph |-> graph_, cur |-> cur,
                                  pop |-> pop_, res |-> res_,
                                  results |-> results_]>>
                          ELSE <<[graph |-> graph_, cur |-> cur]>>
               /\ pc' = "init_problem"
          ELSE /\ pc' = "raised"
               /\ UNCHANGED <<graph_, results_, problem_, pop_, algorithm_,
                              termination_, res_, cur, prev>>
    /\ out' = None
    /\ UNCHANGED <<params_, x, X>>

init_problem ==
    /\ pc = "init_problem"
    /\ LET p == MultiCriteriaProblem(params_.mode, graph_)
       IN IF IsErr(p)
          THEN pc' = "raised" /\ UNCHANGED problem_
          ELSE pc' = "initialize_pop" /\ problem_' = p
    /\ UNCHANGED <<graph_, params_, pop_, algorithm_, termination_, res_,
                   results_, x, out, X, cur, prev>>

define_algo ==
    /\ pc = "define_algo"
    /\ algorithm_' =
          [pop_size |-> params_.popsize,
           n_offsprings |-> params_.popsize,
           sampling |-> pop_,
           mutation |-> IF params_.mutation = "int_pm" THEN "int_pm"
                        ELSE IF params_.mutation = "pizzuti" THEN "PizMutation"
                        ELSE "HOCMutation",
           eliminate_duplicates |-> TRUE]
    /\ pc' = "define_termination"
    /\ UNCHANGED <<graph_, params_, problem_, pop_, termination_, res_,
                   results_, x, out, X, cur, prev>>

\* params['termination'] is left to its default None here.
define_termination ==
    /\ pc = "define_termination"
    /\ termination_' = [n_gen |-> 1000]
    /\ pc' = "optimize"
    /\ UNCHANGED <<graph_, params_, problem_, pop_, algorithm_, res_,
                   results_, x, out, X, cur, prev>>

\* Values a mutation operator can write into gene l.
MutationValues(problem, mutation, l) ==
    IF mutation = "int_pm" THEN problem.xl_[l] .. problem.xu_[l]
    ELSE IF mutation = "PizMutation" \/ problem.prob2[l].num > 0
    THEN randint(problem.xl_[l] + 1, problem.xu_[l] + 1)
    ELSE {}

\* Genomes the engine can hold after any number of generations: uniform
\* crossover takes every gene from a row of the population, mutation
\* replaces it by a value the operator can write.
EngineGenomes(problem, algorithm) ==
    {genome \in Genomes(problem) :
        \A l \in 0 .. (problem.n_var_ - 1) :
            \/ \E r \in DOMAIN algorithm.sampling :
                  genome[l] = algorithm.sampling[r][l]
            \/ genome[l] \in MutationValues(problem, algorithm.mutation, l)}

\* res_.history: one snapshot of the algorithm per generation when
\* save_history is set, else empty.  Only the last generation, whose optimum
\* is the returned front, is kept here.
HistoryOf(save_history, q) ==
    IF save_history = "True" THEN <<[n_eval |-> "n_eval", opt |-> q]>> ELSE <<>>

\* optimize: minimize(problem_, algorithm_, termination_) returns the
\* non-dominated genomes res_.X, at most MaxFront of them here, no two equal
\* (eliminate_duplicates).
optimize ==
    /\ pc = "optimize"
    /\ res_' \in
          IF SameGraph /\ Reseeded(params_.seed) /\ prev[1].pop = pop_
          THEN {prev[1].res}
          ELSE {[X |-> q, history |-> HistoryOf(params_.save_history, q)] :
                  q \in DistinctSeqs(EngineGenomes(problem_, algorithm_),
                                     MaxFront)}
    /\ pc' = "collate_results"
    /\ UNCHANGED <<graph_, params_, problem_, pop_, algorithm_, termination_,
                   results_, x, out, X, cur, prev>>

\* A variant that asserts the results only.
hypervolume_assertsResultsOnly(results, params) == results # EmptyBag

\* The two assertions of compute_hypervolume: results_ is a non-empty list
\* and params_['save_history'] is true.
hypervolume_asserts(results, params) ==
    /\ results # EmptyBag
    /\ params.save_history = "True"

\* compute_hypervolume(): raises, or returns (n_evals_, hv_) with one entry
\* per snapshot of res_.history; the hypervolume of a snapshot is held as
\* the term <<"hv", mode, front>>.
compute_hypervolume ==
    /\ pc \in BetweenCalls
    /\ IF hypervolume_asserts(results_, params_)
       THEN /\ out' = [n_evals |-> [g \in DOMAIN res_.history |->
                                      res_.history[g].n_eval],
                       hv |-> [g \in DOMAIN res_.history |->
                                 <<"hv", params_.mode, res_.history[g].opt>>]]
            /\ pc' = "hv_returned"
       ELSE /\ out' = Err("AssertionError")
            /\ pc' = "hv_raised"
    /\ UNCHANGED <<graph_, params_, problem_, pop_, algorithm_, termination_,
                   res_, results_, x, X, cur, prev>>

Init ==
    /\ pc = "new"
    /\ graph_ = None /\ params_ = None /\ problem_ = None /\ pop_ = None
    /\ algorithm_ = None /\ termination_ = None /\ res_ = None
    /\ results_ = None /\ x = None /\ out = None /\ X = None /\ cur = None
    /\ prev = <<>>

Next ==
    \/ Construct
    \/ detect_communities
    \/ init_problem
    \/ initialize_pop
    \/ define_algo
    \/ define_termination
    \/ optimize
    \/ collate_results
    \/ compute_hypervolume

Spec == Init /\ [][Next]_vars

----------------------------------------------------------------------------
(* Fitness evaluation of one genome: the engine calls _evaluate(x, out).   *)

InitEval ==
    /\ pc = "evaluate"
    /\ problem_ \in Problems
    /\ x \in Genomes(problem_) \cup Malformed(problem_)
    /\ out = None
    /\ graph_ = None /\ params_ = None /\ pop_ = None /\ res_ = None
    /\ results_ = None /\ X = None /\ cur = None
    /\ algorithm_ = None /\ termination_ = None
    /\ prev = <<>>

\* _evaluate returns having written out["F"], or raises; m and num_clusters
\* are its locals at that point.
Evaluate ==
    /\ pc = "evaluate"
    /\ out' = LET r == evaluate(problem_, x)
              IN IF IsErr(r) THEN r
                 ELSE [F |-> r.F, m |-> decode(problem_, x),
                       num_clusters |-> NumClusters(decode(problem_, x))]
    /\ pc' = "evaluated"
    /\ UNCHANGED <<graph_, params_, problem_, pop_, res_, results_, x, X, cur,
                   algorithm_, termination_, prev>>

NextEval == Evaluate

SpecEval == InitEval /\ [][NextEval]_vars

----------------------------------------------------------------------------
(* Properties of decoding and evaluation (SpecEval) *)

Evaluated == pc = "evaluated" /\ WellFormed(problem_, x)

\* C1: for every genome whose genes lie in [0, deg(i)], evaluation does not
\* fail, the decoded membership gives every one of the |V| vertices exactly
\* one community id (an id below num_clusters), and 1 <= num_clusters <= |V|.
C1_DecodeCoversEveryVertex ==
    Evaluated =>
        /\ ~IsErr(out)
        /\ DOMAIN out.m = 0 .. (problem_.n_var_ - 1)
        /\ \A v \in 0 .. (problem_.n_var_ - 1) :
              out.m[v] \in 0 .. (out.num_clusters - 1)
        /\ out.num_clusters >= 1
        /\ out.num_clusters <= problem_.n_var_

\* A well-formed genome that decodes to several communities, but not to
\* singletons only.
C1_Witness ==
    /\ Evaluated
    /\ out.num_clusters > 1
    /\ out.num_clusters < problem_.n_var_

\* The edge set the genome selects, as the specification states it.
SelectedEdges(problem, genome) ==
    {e \in (0 .. (problem.n_var_ - 1)) \X (0 .. (problem.n_var_ - 1)) :
        /\ genome[e[1]] > 0
        /\ genome[e[1]] <= Len(problem.adj_list_[e[1]])
        /\ problem.adj_list_[e[1]][genome[e[1]]] = e[2]}

\* Reflexive, symmetric, transitive closure of an edge set by squaring.
RECURSIVE Squared(_, _, _)
Squared(V, R, k) ==
    IF k = 0 THEN R
    ELSE Squared(V, [i \in V |-> [j \in V |-> \E h \in V : R[i][h] /\ R[h][j]]],
                 k - 1)

Linked(V, E) ==
    Squared(V, [i \in V |-> [j \in V |->
                    i = j \/ <<i, j>> \in E \/ <<j, i>> \in E]],
            Cardinality(V))

\* Number of connected components: one per vertex that is linked to no
\* vertex of smaller index.
ComponentCount(V, E) ==
    LET L == Linked(V, E)
    IN Cardinality({v \in V : \A u \in V : u < v => ~L[u][v]})

\* Newman's Q summed community by community:
\*   Q = sum_c ( W_c / 2m - (S_c / 2m)^2 ),
\* W_c the weight inside c (both directions), S_c the strength of c.
QByCommunity(V, W, c) ==
    LET twoM == Sum([i \in V |-> Sum([j \in V |-> W[i][j]], V)], V)
        ids == {c[i] : i \in V}
        inside(k) == LET B == {i \in V : c[i] = k}
                     IN Sum([i \in B |-> Sum([j \in B |-> W[i][j]], B)], B)
        strength(k) == LET B == {i \in V : c[i] = k}
                       IN Sum([i \in B |-> Sum([j \in V |-> W[i][j]], V)], B)
    IN IF twoM = 0 THEN NaN
       ELSE [num |-> Sum([k \in ids |-> twoM * inside(k)
                                         - strength(k) * strength(k)], ids),
             den |-> twoM * twoM]

ExpectedQWhole ==
    QByCommunity(Vertices(problem_.graph_), AdjW(problem_.graph_), out.m)

ExpectedQ1 ==
    LET lower == SortedSeq({i \in Vertices(problem_.graph_) :
                               problem_.graph_.VX[i] = 0})
    IN QByCommunity(DOMAIN lower, ProjW(problem_.graph_, lower),
                    [a \in DOMAIN lower |-> out.m[lower[a]]])

ExpectedQ2 ==
    LET upper == SortedSeq({i \in Vertices(problem_.graph_) :
                               problem_.graph_.VX[i] = 1})
    IN QByCommunity(DOMAIN upper, ProjW(problem_.graph_, upper),
                    [a \in DOMAIN upper |-> out.m[upper[a]]])

ExpectedComponents ==
    ComponentCount(Vertices(problem_.graph_), SelectedEdges(problem_, x))

\* C3: evaluate writes [-Q, num_clusters] in mode 2d, [-Q1, -Q2,
\* num_clusters] in mode 3d and [-Q1, -Q2, -Q, num_clusters] in mode 4d,
\* and the last component is the number of connected components of the
\* genome-selected edge set.
C3_ObjectiveVector ==
    Evaluated =>
        /\ ~IsErr(out)
        /\ problem_.mode_ = "2d" =>
              out.F = <<Neg(ExpectedQWhole), ExpectedComponents>>
        /\ problem_.mode_ = "3d" =>
              out.F = <<Neg(ExpectedQ1), Neg(ExpectedQ2), ExpectedComponents>>
        /\ problem_.mode_ = "4d" =>
              out.F = <<Neg(ExpectedQ1), Neg(ExpectedQ2), Neg(ExpectedQWhole),
                        ExpectedComponents>>
        /\ out.F[Len(out.F)] = ExpectedComponents

\* A 4d evaluation of a partition into two communities whose three
\* modularity scores are numbers, not all equal.
C3_Witness ==
    /\ Evaluated
    /\ problem_.mode_ = "4d"
    /\ out.F[4] = 2
    /\ ~IsNaN(out.F[1]) /\ ~IsNaN(out.F[2])
    /\ out.F[1].num * out.F[3].den # out.F[3].num * out.F[1].den

\* C4: two vertices get the same id exactly when the genome-selected edges
\* link them, and the ids are canonical: scanning the vertices in increasing
\* index, an id seen for the first time is the number of ids seen before.
C4_CanonicalComponents ==
    Evaluated =>
        /\ ~IsErr(out)
        /\ LET V == Vertices(problem_.graph_)
               L == Linked(V, SelectedEdges(problem_, x))
           IN /\ \A i, j \in V : (out.m[i] = out.m[j]) <=> L[i][j]
              /\ \A v \in V :
                    LET before == {out.m[u] : u \in {w \in V : w < v}}
                    IN out.m[v] \in before \/ out.m[v] = Cardinality(before)

\* A decode in which a vertex joins the community of a vertex that points
\* at it although its own gene is 0, and a later vertex opens community 1.
C4_Witness ==
    /\ Evaluated
    /\ \E i, j \in Vertices(problem_.graph_) :
          /\ i < j /\ x[i] = 0 /\ x[j] > 0
          /\ out.m[i] = out.m[j]
    /\ \E v \in Vertices(problem_.graph_) : out.m[v] = 1

\* C7: evaluating a genome with a gene outside [0, deg(i)] raises an error.
C7_MalformedGenomeSignalsError ==
    (pc = "evaluated" /\ ~WellFormed(problem_, x)) => IsErr(out)

----------------------------------------------------------------------------
(* Properties of the MST-diverse seeding (SpecSeed) *)

Seeded == pc = "define_algo" /\ params_.initialization # "pizzuti"

\* C9: on a connected graph the MST-seeded genome, row 0 of the default
\* initial population, decodes to exactly one community that contains every
\* vertex.
C9_SeedIsOneCommunity ==
    Seeded =>
        /\ \A v \in Vertices(problem_.graph_) : decode(problem_, pop_[1])[v] = 0
        /\ ComponentCount(Vertices(problem_.graph_),
                          SelectedEdges(problem_, pop_[1])) = 1

\* A seed on a graph with a cycle, where the tree leaves an edge out.
C9_Witness ==
    /\ Seeded
    /\ Cardinality(problem_.graph_.E) > problem_.n_var_ - 1
    /\ NumClusters(decode(problem_, pop_[1])) = 1

\* Communities of the cut with k communities that initialize_pop used.
CutAt(k) == as_clustering(problem_.graph_, cur.test_hc, k)

\* d of C10: the degree-1 vertices whose seed-selected edge crosses a
\* community boundary of the cut with k communities.
Unsplit(k) ==
    {j \in Vertices(problem_.graph_) :
        /\ problem_.xu_[j] = 1
        /\ cur.x[j] # 0
        /\ CutAt(k)[problem_.adj_list_[j][cur.x[j]]] # CutAt(k)[j]}

\* C10: in the MST-diverse population, for every cut level k in
\* 2..min(popsize, n_var), row k-1 decodes to at least k - d communities.
C10_DiverseRowCommunities ==
    Seeded =>
        \A k \in 2 .. MinOf(params_.popsize, problem_.n_var_) :
            ComponentCount(Vertices(problem_.graph_),
                           SelectedEdges(problem_, pop_[k]))
              >= k - Cardinality(Unsplit(k))

\* A row where the bound is met with equality and a leaf was left unsplit.
C10_Witness ==
    /\ Seeded
    /\ \E k \in 2 .. MinOf(params_.popsize, problem_.n_var_) :
          /\ Cardinality(Unsplit(k)) > 0
          /\ NumClusters(decode(problem_, pop_[k])) = k - Cardinality(Unsplit(k))
          /\ NumClusters(decode(problem_, pop_[k])) > 1

\* The neighbour of v on the path from v to vertex 0 in the tree t: the
\* tree edge at v whose removal cuts v off from 0.
ParentIn(t, v) ==
    CHOOSE u \in 0 .. (problem_.n_var_ - 1) :
        \E e \in t : /\ e \in {<<u, v>>, <<v, u>>}
                     /\ v \notin Reach(t \ {e}, {0})

\* C18: the orientation of the spanning tree reaches every vertex, so no
\* gene is left unset; the seed has exactly one gene 0, that of vertex 0,
\* the root; every other gene is the 1-based position, in the vertex's
\* adjacency list of the original graph, of its parent in the tree rooted
\* at 0; the edges the seed selects are exactly the n - 1 edges of the
\* spanning tree.
C18_SeedOrientsTreeTowardsRoot ==
    Seeded =>
        LET V == 0 .. (problem_.n_var_ - 1)
        IN /\ \A v \in V : cur.x[v] # -1
           /\ {v \in V : cur.x[v] = 0} = {0}
           /\ \A v \in V \ {0} :
                 /\ cur.x[v] \in 1 .. Len(problem_.adj_list_[v])
                 /\ problem_.adj_list_[v][cur.x[v]] = ParentIn(cur.t, v)
           /\ {IF e[1] < e[2] THEN e ELSE <<e[2], e[1]>> :
                  e \in SelectedEdges(problem_, cur.x)} = cur.t
           /\ Cardinality(SelectedEdges(problem_, cur.x)) = problem_.n_var_ - 1
           /\ pop_[1] = cur.x

\* A seed on a graph with a cycle whose tree has a vertex two steps from
\* the root, linked to a parent that is not first in its adjacency list.
C18_Witness ==
    /\ Seeded
    /\ Cardinality(problem_.graph_.E) > problem_.n_var_ - 1
    /\ \E v \in 1 .. (problem_.n_var_ - 1) :
          /\ cur.x[v] > 1
          /\ ParentIn(cur.t, v) # 0
          /\ problem_.adj_list_[v][cur.x[v]] = ParentIn(cur.t, v)

\* u and v are in one community of the cut with k communities of the
\* dendrogram initialize_pop used.
SameCommunity(k, u, v) ==
    \E B \in cur.test_hc[problem_.n_var_ - k + 1] : u \in B /\ v \in B

\* C19: in the MST-diverse population, row r (0-based) with
\* 1 <= r <= min(popsize, n_var) - 1 is the seed except that gene j is 0
\* exactly when the seed's gene j is not 0, the neighbour it selects is in
\* another community than j in the cut with r + 1 communities, and
\* deg(j) > 1; row 0 and the rows from min(popsize, n_var) on are copies of
\* the seed.
C19_DiverseRowsFollowCuts ==
    Seeded =>
        /\ DOMAIN pop_ = 1 .. params_.popsize
        /\ \A r \in 0 .. (params_.popsize - 1) :
              IF 1 <= r /\ r <= MinOf(params_.popsize, problem_.n_var_) - 1
              THEN \A j \in 0 .. (problem_.n_var_ - 1) :
                      pop_[r + 1][j] =
                        IF /\ cur.x[j] # 0
                           /\ ~SameCommunity(r + 1, j,
                                             problem_.adj_list_[j][cur.x[j]])
                           /\ Cardinality(Neighbors(problem_.graph_, j)) > 1
                        THEN 0 ELSE cur.x[j]
              ELSE pop_[r + 1] = cur.x

\* A population of more rows than vertices where a cut row is not the
\* seed, keeps a crossing edge of a vertex of degree 1, and the last row is
\* the seed.
C19_Witness ==
    /\ Seeded
    /\ params_.popsize > problem_.n_var_
    /\ pop_[params_.popsize] = cur.x
    /\ \E r \in 1 .. (problem_.n_var_ - 1) :
          /\ pop_[r + 1] # cur.x
          /\ \E j \in 0 .. (problem_.n_var_ - 1) :
                /\ pop_[r + 1][j] # 0
                /\ ~SameCommunity(r + 1, j, problem_.adj_list_[j][cur.x[j]])

\* C17: the 'pizzuti' seeding yields exactly popsize rows of n_var genes,
\* every gene i drawn from [1, deg(i)], so that no gene is 0 and every
\* vertex selects an edge.
C17_PizzutiPopulationShape ==
    (pc = "define_algo" /\ params_.initialization = "pizzuti") =>
        /\ DOMAIN pop_ = 1 .. params_.popsize
        /\ \A r \in DOMAIN pop_ :
              /\ DOMAIN pop_[r] = 0 .. (problem_.n_var_ - 1)
              /\ \A i \in DOMAIN pop_[r] :
                    /\ pop_[r][i] >= 1
                    /\ pop_[r][i] <= Cardinality(Neighbors(problem_.graph_, i))
              /\ Cardinality(sol_edges(problem_, pop_[r])) = problem_.n_var_

\* A 'pizzuti' population of two different rows, one with a gene at the
\* degree of a vertex of degree > 1.
C17_Witness ==
    /\ pc = "define_algo" /\ params_.initialization = "pizzuti"
    /\ params_.popsize = 2
    /\ pop_[1] # pop_[2]
    /\ \E i \in DOMAIN pop_[2] :
          pop_[2][i] > 1 /\ pop_[2][i] = Cardinality(Neighbors(problem_.graph_, i))

----------------------------------------------------------------------------
(* Properties of result collation (SpecCollate) *)

\* C8: collate_results never stores two records with an identical metric
\* tuple, and stores at most one record per final genome.
C8_NoIdenticalRecords ==
    pc = "done" =>
        /\ \A r \in BagToSet(results_) : CopiesIn(r, results_) = 1
        /\ BagCardinality(results_) <= Len(res_.X)

\* The pairs (i in Lower, j in Upper) of the graph.
LowerUpperPairs ==
    {pr \in Vertices(graph_) \X Vertices(graph_) :
        graph_.VX[pr[1]] = 0 /\ graph_.VX[pr[2]] = 1}

\* The pairs that the partition P (a set of blocks) gets right: adjacent
\* and in one block, or not adjacent and in two blocks.
CorrectPairs(P) ==
    {pr \in LowerUpperPairs :
        LET together == \E B \in P : pr[1] \in B /\ pr[2] \in B
        IN Adjacent(graph_, pr[1], pr[2]) <=> together}

\* C20: the performance of every collated record is the number of pairs
\* (i in Lower, j in Upper) that are adjacent and in the same community or
\* not adjacent and in different communities, divided by |Lower|*|Upper|;
\* it lies in [0, 1], and records of the same partition carry the same
\* value.
C20_PerformanceIsCorrectPairFraction ==
    pc = "done" =>
        /\ \A r \in BagToSet(results_) :
              /\ r[10].num = Cardinality(CorrectPairs(r[9][2]))
              /\ r[10].den = Cardinality(LowerUpperPairs)
              /\ r[10].den > 0
              /\ 0 <= r[10].num /\ r[10].num <= r[10].den
        /\ \A r, q \in BagToSet(results_) :
              r[9][2] = q[9][2] => r[10] = q[10]

\* A record of two or more communities with a pair of each kind: adjacent
\* and together, apart and not adjacent, adjacent and apart.
C20_Witness ==
    /\ pc = "done"
    /\ \E r \in BagToSet(results_) :
          /\ Cardinality(r[9][2]) >= 2
          /\ r[10].num = Cardinality(CorrectPairs(r[9][2]))
          /\ \E a, b, c \in LowerUpperPairs :
                /\ a \in CorrectPairs(r[9][2]) /\ Adjacent(graph_, a[1], a[2])
                /\ b \in CorrectPairs(r[9][2]) /\ ~Adjacent(graph_, b[1], b[2])
                /\ c \notin CorrectPairs(r[9][2]) /\ Adjacent(graph_, c[1], c[2])

\* The label of the block B of the partition P: blocks are numbered from 0
\* in the order of their smallest vertex.
LabelOf(P, B) == Cardinality({C \in P : Min(C) < Min(B)})

\* Number of edges between a Lower vertex of the block labelled l and an
\* Upper vertex of the block labelled m.
EdgesBetween(P, l, m) ==
    Cardinality({pr \in LowerUpperPairs :
                    /\ Adjacent(graph_, pr[1], pr[2])
                    /\ \E B \in P : pr[1] \in B /\ LabelOf(P, B) = l
                    /\ \E B \in P : pr[2] \in B /\ LabelOf(P, B) = m})

\* The lowest label m at which EdgesBetween(P, l, m) is largest.
LowestArgmax(P, l) ==
    LET K == 0 .. (Cardinality(P) - 1)
    IN Min({m \in K : \A o \in K : EdgesBetween(P, l, o) <= EdgesBetween(P, l, m)})

\* C21: the Murata modularity of every collated record is
\* Q = sum over the communities l of (max_m e[l][m] - a[l] * a[j]), j the
\* lowest index at which e[l] is largest, e[l][m] the number of edges
\* between a Lower vertex of community l and an Upper vertex of community
\* m divided by twice the number of edges, a[l] the sum of row l of e.
\* With M edges, Q = sum_l (2 M c[l][j] - r[l] r[j]) / (4 M M), c the
\* counts and r their row sums.
C21_MurataIsSumOfRowMaxima ==
    pc = "done" =>
        \A rec \in BagToSet(results_) :
            LET P == rec[9][2]
                K == 0 .. (Cardinality(P) - 1)
                M == Cardinality(graph_.E)
                rowsum(l) == Sum([m \in K |-> EdgesBetween(P, l, m)], K)
                terms == [l \in K |->
                            2 * M * EdgesBetween(P, l, LowestArgmax(P, l))
                              - rowsum(l) * rowsum(LowestArgmax(P, l))]
            IN /\ rec[12].den > 0
               /\ rec[12].num * (4 * M * M) = Sum(terms, K) * rec[12].den

\* A record of two or more communities where a row of e has its largest
\* entry, above 0, at two indices whose rows have different sums.
C21_Witness ==
    /\ pc = "done"
    /\ \E rec \in BagToSet(results_) :
          LET P == rec[9][2]
              K == 0 .. (Cardinality(P) - 1)
              rowsum(l) == Sum([m \in K |-> EdgesBetween(P, l, m)], K)
          IN /\ Cardinality(P) >= 2
             /\ rec[12].num # 0
             /\ \E l, m \in K :
                   /\ m # LowestArgmax(P, l)
                   /\ EdgesBetween(P, l, m) > 0
                   /\ EdgesBetween(P, l, m)
                        = EdgesBetween(P, l, LowestArgmax(P, l))
                   /\ rowsum(m) # rowsum(LowestArgmax(P, l))

----------------------------------------------------------------------------
(* Zero genes and communities (SpecEval) *)

\* The vertices of community c whose gene is 0.
ZeroGenesIn(c) ==
    {v \in 0 .. (problem_.n_var_ - 1) : out.m[v] = c /\ x[v] = 0}

\* The communities of one vertex.
Singletons ==
    {c \in 0 .. (out.num_clusters - 1) :
        Cardinality({v \in 0 .. (problem_.n_var_ - 1) : out.m[v] = c}) = 1}

\* C22: for every genome with genes in [0, deg(i)], every decoded community
\* holds at most one vertex whose gene is 0, so the number of zero genes is
\* at most num_clusters; the all-zero genome decodes to |V| communities of
\* one vertex, and a genome without a zero gene has no community of one
\* vertex.
C22_OneZeroGenePerCommunity ==
    Evaluated =>
        LET V == 0 .. (problem_.n_var_ - 1)
            zeros == {v \in V : x[v] = 0}
        IN /\ ~IsErr(out)
           /\ \A c \in 0 .. (out.num_clusters - 1) :
                 Cardinality(ZeroGenesIn(c)) <= 1
           /\ Cardinality(zeros) <= out.num_clusters
           /\ zeros = V =>
                 /\ out.num_clusters = problem_.n_var_
                 /\ Cardinality(Singletons) = problem_.n_var_
           /\ zeros = {} => Singletons = {}

\* A genome that decodes to a community of several vertices with one zero
\* gene, next to a community without any zero gene.
C22_Witness ==
    /\ Evaluated
    /\ ~IsErr(out)
    /\ \E c, d \in 0 .. (out.num_clusters - 1) :
          /\ Cardinality(ZeroGenesIn(c)) = 1
          /\ c \notin Singletons
          /\ ZeroGenesIn(d) = {}

----------------------------------------------------------------------------
(* Declared number of objectives (SpecEval) *)

\* C2: the number of objectives declared to the base problem equals the
\* length of the vector evaluate writes: 2 in mode 2d, 3 in 3d, 4 in 4d.
C2_DeclaredObjectivesMatchVector ==
    Evaluated =>
        /\ Len(out.F) = problem_.n_obj
        /\ problem_.mode_ = "2d" => problem_.n_obj = 2
        /\ problem_.mode_ = "3d" => problem_.n_obj = 3
        /\ problem_.mode_ = "4d" => problem_.n_obj = 4

----------------------------------------------------------------------------
(* Properties of the mutation operators (SpecMut) *)

\* C5: however often the Uniform and the centrality-biased operators are
\* applied to a population with genes in [0, deg(i)], the matrix keeps its
\* number of rows and columns and every gene i stays in [0, deg(i)].
C5_MutationKeepsShapeAndRange ==
    /\ Len(X) = params_.popsize
    /\ \A i \in 1 .. Len(X) :
          /\ DOMAIN X[i] = 0 .. (problem_.n_var_ - 1)
          /\ WellFormed(problem_, X[i])

\* A call of the centrality-biased operator has returned, and a gene with
\* several neighbours holds its largest value.
C5_Witness ==
    /\ pc = "mutation"
    /\ cur.calls = MaxCalls
    /\ params_.mutation = ""
    /\ \E i \in 1 .. Len(X) : \E l \in 0 .. (problem_.n_var_ - 1) :
          X[i][l] = problem_.xu_[l] /\ problem_.xu_[l] > 1

\* The (row, gene) positions of the matrix XX that hold 0.
ZeroPositions(XX) ==
    {pos \in (DOMAIN XX) \X (0 .. (problem_.n_var_ - 1)) : XX[pos[1]][pos[2]] = 0}

\* C23: the Uniform and the centrality-biased operators never write the
\* value 0: no round of theirs adds a (row, gene) position holding 0, so
\* after any sequence of their applications the positions holding 0 are
\* among those that held 0 at the start, and a population without a zero
\* gene never acquires one.
C23_MutationNeverWritesZero ==
    [][ZeroPositions(X') \subseteq ZeroPositions(X)]_vars

\* A call of the Uniform operator on a single row has returned: every gene
\* of the row was replaced, none by 0, one by a value above 1.
C23_Witness ==
    /\ pc = "mutation"
    /\ cur.calls = MaxCalls
    /\ params_.mutation = "pizzuti"
    /\ params_.popsize = 1
    /\ ZeroPositions(X) = {}
    /\ \E l \in 0 .. (problem_.n_var_ - 1) : X[1][l] > 1

----------------------------------------------------------------------------
(* Properties of the detector (Spec) *)

\* The graph is non-empty, in one piece and has a two-colouring.
GraphValid(g) ==
    /\ g.n > 0
    /\ \A i, j \in Vertices(g) : Linked(Vertices(g), g.E)[i][j]
    /\ \E c \in [Vertices(g) -> {0, 1}] : \A e \in g.E : c[e[1]] # c[e[2]]

ConfigValid(params) ==
    /\ params.mode \in {"2d", "3d", "4d"}
    /\ params.mutation \in {"pizzuti", "int_pm", ""}
    /\ params.initialization \in {"pizzuti", ""}

\* C6: no run reaches optimize or collate_results with a graph that is not
\* bipartite, not connected or empty, or with an unrecognized mode, mutation
\* or initialization name; the error is raised before.
C6_InvalidInputNeverOptimized ==
    pc \in {"optimize", "collate_results", "done"} =>
        GraphValid(graph_) /\ ConfigValid(params_)

\* A run that passed all checks and is about to call optimize.
C6_Witness ==
    /\ pc = "optimize"
    /\ GraphValid(graph_) /\ ConfigValid(params_)
    /\ params_.mode = "4d" /\ params_.mutation = "int_pm"

\* C11: compute_hypervolume raises, and returns no value, when no community
\* detection has produced results or when save_history is false; it returns
\* (n_evals, hv) only after a completed run with the history retained.
C11_HypervolumeNeedsHistory ==
    /\ pc = "hv_returned" =>
          /\ ~IsErr(out)
          /\ results_ # EmptyBag
          /\ params_.save_history = "True"
          /\ Len(res_.history) >= 1
          /\ Len(out.n_evals) = Len(res_.history)
          /\ Len(out.hv) = Len(res_.history)
    /\ pc = "hv_raised" =>
          /\ IsErr(out)
          /\ results_ = EmptyBag \/ params_.save_history = "False"
    /\ (pc \in {"hv_returned", "hv_raised"}
          /\ (results_ = EmptyBag \/ params_.save_history = "False"))
         => pc = "hv_raised"

\* compute_hypervolume raised after a run that completed with save_history
\* false.
C11_Witness ==
    /\ pc = "hv_raised"
    /\ results_ # EmptyBag
    /\ params_.save_history = "False"

\* The run that just completed got the graph of the last completed run.
\* The record r is one that collation produces for the stored graph: the
\* problem at hand is the one of that graph, and r is the record of a
\* genome with genes in [0, deg(i)] that decodes to the partition of r.
RecordOfStoredGraph(r) ==
    /\ problem_.graph_ = graph_
    /\ \E genome \in Genomes(problem_) :
          /\ Communities(decode(problem_, genome)) = r[9][2]
          /\ ResultTuple(problem_, "multicriteria", genome) = r

\* get_results() between calls holds only records of the stored graph, at
\* most one per genome of the last front.
ResultsAreOfStoredGraph ==
    (pc \in BetweenCalls /\ results_ # EmptyBag) =>
        /\ \A r \in BagToSet(results_) : RecordOfStoredGraph(r)
        /\ BagCardinality(results_) <= MaxFront

\* A call stores a graph that passes the check and resets the results; a
\* call whose graph fails the check changes neither.
CallStoresOrLeaves ==
    /\ (pc \in BetweenCalls /\ pc' = "init_problem") =>
          check_graph(graph_') /\ results_' = EmptyBag
    /\ (pc \in BetweenCalls /\ pc' = "raised") =>
          UNCHANGED <<graph_, results_>>

\* C24: results never accumulate across calls: after any sequence of
\* detect_communities calls on one detector, get_results returns only
\* records computed for the graph of the most recent call that passed the
\* graph check, and a call that fails the graph check leaves the stored
\* graph and the previous results unchanged.
C24_ResultsOfLastAcceptedGraphOnly ==
    []ResultsAreOfStoredGraph /\ [][CallStoresOrLeaves]_vars

\* A second run, on another graph than the run before it, has completed
\* and left its one record.
C24_Witness ==
    /\ pc = "done"
    /\ Len(prev) = 1
    /\ prev[1].graph # graph_
    /\ BagCardinality(results_) = 1
    /\ \A r \in BagToSet(results_) : RecordOfStoredGraph(r)

Repeated == pc = "done" /\ SameGraph

\* C12: two invocations of detect_communities with the same graph, the same
\* parameters and the same non-null seed produce the same initial
\* population and the same result set, whatever the state of the generator
\* before each invocation.
C12_SameSeedSameOutcome ==
    (Repeated /\ params_.seed # None) =>
        /\ pop_ = prev[1].pop
        /\ results_ = prev[1].results

----------------------------------------------------------------------------
(* Construction of the problem instance from a graph and a mode.          *)

InitProblem ==
    /\ pc = "init_problem"
    /\ graph_ \in Graphs
    /\ params_ \in {WithDefaults(p) :
                      p \in {q \in ParamChoices :
                                /\ q.popsize = 1 /\ q.initialization = None
                                /\ q.mutation = None /\ q.save_history = None
                                /\ q.seed = None}}
    /\ results_ = EmptyBag
    /\ problem_ = None /\ pop_ = None /\ algorithm_ = None
    /\ termination_ = None /\ res_ = None /\ x = None /\ out = None
    /\ X = None /\ cur = None /\ prev = <<>>

SpecProblem == InitProblem /\ [][init_problem]_vars

\* prob is a probability distribution: no entry is negative and the
\* entries, which share their denominator, sum to 1.
IsDistribution(prob) ==
    /\ \A l \in DOMAIN prob : prob[l].den > 0 /\ prob[l].num >= 0
    /\ \A l \in DOMAIN prob :
          Sum([k \in DOMAIN prob |-> prob[k].num], DOMAIN prob) = prob[l].den

\* C16: for every graph that passes the precondition checks (bipartite,
\* connected, not empty; a mode of '2d', '3d' or '4d') the construction of
\* the problem succeeds, prob1, prob2 and prob3 are probability
\* distributions, and prob2[l] is the betweenness of vertex l divided by the
\* sum of the betweenness of all vertices.
C16_ValidGraphGivesDistributions ==
    (pc # "init_problem" /\ check_graph(graph_) /\ ModeOk(params_.mode)) =>
        /\ pc = "initialize_pop"
        /\ IsDistribution(problem_.prob1)
        /\ IsDistribution(problem_.prob2)
        /\ IsDistribution(problem_.prob3)
        /\ LET weights == betweenness(graph_, PathTables(graph_))
               total == Sum(weights, Vertices(graph_))
           IN \A l \in Vertices(graph_) :
                 problem_.prob2[l].num * total
                     = weights[l] * problem_.prob2[l].den

\* The same for graphs of three or more vertices.
DistributionsFromThreeVertices == graph_.n >= 3 => C16_ValidGraphGivesDistributions

----------------------------------------------------------------------------
(* Properties of one round of a mutation operator (SpecRound) *)

\* out holds the locals of a round of the operator op.
RoundOf(op) == (pc = "mutating" \/ cur.calls > 0) /\ out.op = op

\* C13: the Uniform operator replaces a gene exactly when its draw is below
\* 1/n_var, n_var the number of genes of a genome, and a replaced gene i
\* gets a value in [1, deg(i)].
C13_UniformRateIsOneOverNVar ==
    RoundOf("PizMutation") =>
        /\ out.round.replaced <=>
              out.round.r * problem_.n_var_ < RandRes
        /\ out.round.replaced =>
              out.round.value \in 1 .. problem_.xu_[out.l]

\* Numerator of the sum of the first h recorded probabilities, which share
\* their denominator.
CumNum(p, h) == Sum([k \in 1 .. h |-> p[k].num], 1 .. h)

\* C14: when the centrality-biased operator mutates gene l, the new value
\* is h+1 for the first adjacency position h whose cumulative probability
\* exceeds the uniform draw, and deg(l), the last position, when no
\* position's cumulative probability exceeds the draw.
C14_WalkPicksFirstExceedingElseLast ==
    (RoundOf("HOCMutation") /\ out.round.replaced) =>
        LET p == out.round.p
            hit == {h \in DOMAIN p :
                      out.round.rnd * p[h].den < CumNum(p, h) * RandRes}
        IN out.round.value = IF hit = {} THEN problem_.xu_[out.l]
                             ELSE Min(hit)

\* C15: each probability p[h] the centrality-biased operator accumulates at
\* vertex l is the betweenness of the edge (l, adj[l][h]) divided by the
\* sum of the betweenness of l's incident edges, and over all positions of
\* l they sum to 1.
C15_EdgeProbabilitiesNormalised ==
    (RoundOf("HOCMutation") /\ out.round.replaced) =>
        LET p == out.round.p
            l == out.l
            g == problem_.graph_
            edge(h) == LET a == problem_.adj_list_[l][h]
                       IN IF l < a THEN <<l, a>> ELSE <<a, l>>
            total == Sum([e \in IncidentEdges(g, l) |-> problem_.bs[e]],
                         IncidentEdges(g, l))
        IN /\ \A h \in DOMAIN p :
                 p[h].num * total = problem_.bs[edge(h)] * p[h].den
           /\ Len(p) = problem_.xu_[l] => CumNum(p, Len(p)) = p[1].den

====
